---- MODULE Spec2Model ----
(***************************************************************************)
(* Todos API (src/app.py): todo records, the primary index and the         *)
(* many-to-many tag index kept in Redis, and the HTTP handlers that read   *)
(* and write them.  Every Redis round trip (a single command, or a         *)
(* MULTI/EXEC pipeline) is one atomic step; a handler is the sequence of   *)
(* its round trips, and handlers of different requests interleave between  *)
(* round trips.                                                            *)
(***************************************************************************)
EXTENDS Integers, Sequences, FiniteSets, TLC

\* ----------------------------------------------------------------- bounds
\* Number of concurrent request slots (in-flight handlers).
NumProcs == 2
\* Number of ids uuid4() can produce in a run (ids are 1..NumIds).
NumIds == 2
\* Number of distinct tag names clients send.
NumTags == 1
\* Number of requests, over a run, that arrive while another request is in
\* flight (requests that run one at a time are not counted or limited).
MaxRaces == 1
\* The same for the tag mutations next to deletes (TagSpec).
MaxTagRaces == 2
\* Largest limit passed to list_todos and get_todos_by_tag besides their
\* default (limits are -1..MaxLimit and DefaultLimit).
MaxLimit == 2
\* Number of sessions (clients with their own sid cookie).
NumSessions == 2
\* Longest name sent to login, in characters.
MaxNameLen == 2

\* ------------------------------------------------------- program constants
HTTP_200_OK == 200
HTTP_201_CREATED == 201
HTTP_204_NO_CONTENT == 204
HTTP_404_NOT_FOUND == 404
\* list_todos(limit=500), get_todos_by_tag(tag, limit=500)
DefaultLimit == 500
\* redis.sscan(..., count=256)
ScanCount == 256

Procs == 1..NumProcs
Ids == 1..NumIds
TagNames == <<"urgent", "work", "alpha", "beta">>
Tags == {TagNames[i] : i \in 1..NumTags}
\* The request bodies clients send to create and update: two that differ in
\* both fields, so that a record mixing two requests is neither of them.
Payloads ==
    {[title |-> "Original title", done |-> FALSE],
     [title |-> "Updated title", done |-> TRUE]}

Limits == (-1..MaxLimit) \cup {DefaultLimit}

Sessions == 1..NumSessions
\* A name is a sequence of characters.
Whitespace == {" "}
Chars == Whitespace \cup {"a", "b"}
Names == UNION {[1..n -> Chars] : n \in 0..MaxNameLen}
NoName == <<>>

\* Todos the codec is applied to: titles of the shortest length and of the
\* requests the tests send, with and without tags.
Titles == {"x", "Original title", "Updated title", "JSON round trip"}
ValidTodos ==
    [id : Ids, title : Titles, done : BOOLEAN, tags : SUBSET {"alpha", "beta"}]

\* Values of request fields a handler does not take.
NoId == 0
NoTag == ""
NoTitle == ""

VARIABLES
    redis,   \* the store: index (set), item (key -> bytes), tags, todos_by_tag
    proc,    \* per request slot: position, request, locals, response, history
    used,    \* ids uuid4() has produced so far
    races,   \* requests that arrived while another was in flight
    sess,    \* the session store: per session its dict (request.session)
    client,  \* per session: the last response and the last login or logout sent
    codec    \* a todo, its encoding and the decoding of that

vars == <<redis, proc, used, races, sess, client, codec>>

\* ------------------------------------------------------------- the model
\* class Todo: id, title, done, tags (a list in the code; its order is the
\* store's iteration order, which nothing depends on: a set here).
Todo(id, title, done, tags) == [id |-> id, title |-> title, done |-> done, tags |-> tags]

NoTodo == Todo(NoId, NoTitle, FALSE, {})

\* Todo.dumps: msgpack of model_dump(), a map of the four fields in
\* declaration order, tags included.
dumps(todo) ==
    << <<"id", todo.id>>, <<"title", todo.title>>,
       <<"done", todo.done>>, <<"tags", todo.tags>> >>

Field(data, key) == data[CHOOSE i \in 1..Len(data) : data[i][1] = key][2]

\* Mutant of loads: done is not read from the data (it takes its default).
loads_default_done(data) ==
    Todo(Field(data, "id"), Field(data, "title"), FALSE, Field(data, "tags"))

\* Todo.loads: unpack the map and validate it into a Todo, field by key.
loads(data) ==
    Todo(Field(data, "id"), Field(data, "title"), Field(data, "done"), Field(data, "tags"))

\* Todo.to_out
to_out(todo) == Todo(todo.id, todo.title, todo.done, todo.tags)

\* Redis string keys: SET and DEL on the item keyspace.
SetKey(f, k, v) == [x \in (DOMAIN f) \cup {k} |-> IF x = k THEN v ELSE f[x]]
DelKey(f, k) == [x \in (DOMAIN f) \ {k} |-> f[x]]

EmptyItems == [x \in {} |-> dumps(NoTodo)]

EmptyDB ==
    [index |-> {},
     item |-> EmptyItems,
     tags |-> [t \in Ids |-> {}],
     todos_by_tag |-> [g \in Tags |-> {}]]

\* redis.get(Todo.key(id)) returned data ("if not data" is false).
HasData(db, id) == id \in DOMAIN db.item

\* Mutant of get_tags_for_todo: the tags packed into the record, when there
\* is one, instead of the forward set.
get_tags_from_record(db, id) ==
    IF HasData(db, id) THEN loads(db.item[id]).tags ELSE db.tags[id]

\* get_tags_for_todo: SMEMBERS of the forward set.
get_tags_for_todo(db, id) == db.tags[id]

\* Mutant of apply_update: done is not assigned.
apply_update_title_only(todo, title, done) == [todo EXCEPT !.title = title]

\* Mutant of apply_update: only done is taken from the request.
apply_update_done_only(todo, title, done) == [todo EXCEPT !.done = done]

\* update_todo_handler: todo.title = data.title; todo.done = data.done.
apply_update(todo, title, done) == [todo EXCEPT !.title = title, !.done = done]

\* get_todo when no write lands between its two round trips: None (found
\* FALSE) without data, else the loaded record with tags read from the
\* forward set.
get_todo(db, id) ==
    IF HasData(db, id)
      THEN [found |-> TRUE,
            todo |-> [loads(db.item[id]) EXCEPT !.tags = get_tags_for_todo(db, id)]]
      ELSE [found |-> FALSE, todo |-> NoTodo]

\* The batch assembly shared by list_todos and get_todos_by_tag (MGET of the
\* records, pipelined SMEMBERS of the forward sets, zip) when no write lands
\* between its round trips: ids without data are dropped.
assemble(db, ids) ==
    {[loads(db.item[t]) EXCEPT !.tags = get_tags_for_todo(db, t)] :
        t \in {x \in ids : HasData(db, x)}}

\* list_todos run alone with fewer ids in the index than its limit.
list_todos(db) == assemble(db, db.index)

\* get_todos_by_tag run alone with fewer ids under the tag than its limit.
get_todos_by_tag(db, tag) == assemble(db, db.todos_by_tag[tag])

\* Mutant of Take: no truncation.
Take_all(seq, n) == seq

\* seq[:n]: the first n elements, all of them if there are fewer; for a
\* negative n all but the last -n.
Take(seq, n) ==
    LET stop == IF n < 0 THEN Len(seq) + n ELSE n
    IN SubSeq(seq, 1, IF stop < Len(seq) THEN stop ELSE Len(seq))

\* Mutant of smembers_all: no tags are read.
smembers_none(db, keys) == [i \in 1..Len(keys) |-> {}]

\* list(ids): the members of a set in some order.
Orders(S) == {seq \in [1..Cardinality(S) -> S] : \A i, j \in 1..Cardinality(S) : seq[i] = seq[j] => i = j}

\* A key without data in an MGET reply (None).
None == [some |-> FALSE, data |-> dumps(NoTodo)]

\* Mutant of mget: MGET without keys is an error reply that is raised.
mget_strict(db, keys) ==
    [ok |-> keys # <<>>,
     values |-> [i \in 1..Len(keys) |->
                   IF HasData(db, keys[i]) THEN [some |-> TRUE, data |-> db.item[keys[i]]] ELSE None]]

\* redis.mget(keys): the values in the order of the keys, None where there is
\* no data; for an empty key list the client answers [] (it sends MGET with
\* no argument and turns the error reply into its empty response).
mget(db, keys) ==
    [ok |-> TRUE,
     values |-> [i \in 1..Len(keys) |->
                   IF HasData(db, keys[i]) THEN [some |-> TRUE, data |-> db.item[keys[i]]] ELSE None]]

\* The pipeline of SMEMBERS of the forward sets, one per id, in order.
smembers_all(db, keys) == [i \in 1..Len(keys) |-> get_tags_for_todo(db, keys[i])]

\* Mutant of combine: every todo gets the tags read for the first id.
RECURSIVE combine_first_tags(_, _, _)
combine_first_tags(values, tags_results, i) ==
    IF i > Len(values) THEN <<>>
    ELSE IF values[i].some
      THEN <<[loads(values[i].data) EXCEPT !.tags = tags_results[1]]>>
              \o combine_first_tags(values, tags_results, i + 1)
      ELSE combine_first_tags(values, tags_results, i + 1)

\* "for i, v in enumerate(values): if v: ..." from index i on: the decoded
\* record of every value that has data, with the tags read at the same
\* position, appended in order.
RECURSIVE combine(_, _, _)
combine(values, tags_results, i) ==
    IF i > Len(values) THEN <<>>
    ELSE IF values[i].some
      THEN <<[loads(values[i].data) EXCEPT !.tags = tags_results[i]]>>
              \o combine(values, tags_results, i + 1)
      ELSE combine(values, tags_results, i + 1)

\* Mutant of save_todo: the record is written, the index is not.
save_todo_no_index(db, todo) ==
    [db EXCEPT !.item = SetKey(@, todo.id, dumps(todo))]

\* Mutant of save_todo: the forward tag set of the todo is deleted too.
save_todo_clear_tags(db, todo) ==
    [db EXCEPT !.index = @ \cup {todo.id},
               !.item = SetKey(@, todo.id, dumps(todo)),
               !.tags = [@ EXCEPT ![todo.id] = {}]]

\* save_todo: one pipeline, SADD index + SET item.
save_todo(db, todo) ==
    [db EXCEPT !.index = @ \cup {todo.id},
               !.item = SetKey(@, todo.id, dumps(todo))]

\* Mutant of delete_todo: the reverse sets are not cleaned.
delete_todo_no_cascade(db, id, tgs) ==
    [db EXCEPT !.index = @ \ {id},
               !.item = DelKey(@, id),
               !.tags = [@ EXCEPT ![id] = {}]]

\* delete_todo's pipeline, given the tags read by the SMEMBERS before it.
delete_todo(db, id, tgs) ==
    [db EXCEPT !.index = @ \ {id},
               !.item = DelKey(@, id),
               !.tags = [@ EXCEPT ![id] = {}],
               !.todos_by_tag = [g \in Tags |-> IF g \in tgs THEN @[g] \ {id} ELSE @[g]]]

\* add_tag_to_todo: one pipeline, SADD forward + SADD reverse.
add_tag_to_todo(db, id, tag) ==
    [db EXCEPT !.tags = [@ EXCEPT ![id] = @ \cup {tag}],
               !.todos_by_tag = [@ EXCEPT ![tag] = @ \cup {id}]]

\* Mutant of remove_tag_from_todo: the reverse link is left behind.
remove_tag_forward_only(db, id, tag) ==
    [db EXCEPT !.tags = [@ EXCEPT ![id] = @ \ {tag}]]

\* remove_tag_from_todo: one pipeline, SREM forward + SREM reverse.
remove_tag_from_todo(db, id, tag) ==
    [db EXCEPT !.tags = [@ EXCEPT ![id] = @ \ {tag}],
               !.todos_by_tag = [@ EXCEPT ![tag] = @ \ {id}]]

\* ------------------------------------------------------------- processes
Idle ==
    [pc |-> "idle", op |-> "none", todo_id |-> NoId, tag |-> NoTag,
     title |-> NoTitle, done |-> FALSE,
     todo |-> NoTodo, tgs |-> {},
     status |-> 0, body |-> NoTodo, names |-> {},
     limit |-> 0, cursor |-> 0, left |-> {}, snap |-> {}, got |-> 0,
     pages |-> 0, mgets |-> 0, pipes |-> 0, moments |-> {},
     ids |-> <<>>, values |-> <<>>, items |-> <<>>,
     solo |-> FALSE, pre |-> EmptyDB]

\* request.session of a session without data.
EmptySession == [k \in {} |-> NoName]

\* A client that has sent nothing yet.
NoRequest ==
    [op |-> "none", status |-> 0, name |-> NoName, last_op |-> "none", last_name |-> NoName]

CodecIdle == [stage |-> "idle", todo |-> NoTodo, data |-> dumps(NoTodo), back |-> NoTodo]

Init ==
    /\ redis = EmptyDB
    /\ proc = [p \in Procs |-> Idle]
    /\ used = {}
    /\ races = 0
    /\ sess = [s \in Sessions |-> EmptySession]
    /\ client = [s \in Sessions |-> NoRequest]
    /\ codec = CodecIdle

\* History only: a request slot remembers the store as it was when its
\* request arrived (pre, solo) for as long as no other slot has taken a step
\* since; a response that has been sent is forgotten at the next step of
\* another slot.
\* The todo of an id as the store holds it: its record with its forward tag
\* set, NoTodo when it has no record.
Stored(db, id) ==
    IF HasData(db, id) THEN [loads(db.item[id]) EXCEPT !.tags = db.tags[id]] ELSE NoTodo

\* History only: a fetch remembers every state its todo has had since the
\* request arrived (the state before each step taken meanwhile; the last
\* step of the fetch does not change the store).
Seen(r) ==
    IF r.op = "get" /\ r.pc # "idle"
      THEN [r EXCEPT !.moments = @ \cup {Stored(redis, r.todo_id)}]
      ELSE r

Interleaved(r) ==
    IF r.pc = "done" THEN Idle ELSE Seen([r EXCEPT !.solo = FALSE, !.pre = EmptyDB])

\* A step of a todo request: sessions and codec are not involved.
Step(p, r) ==
    /\ proc' = [q \in Procs |-> IF q = p THEN Seen(r) ELSE Interleaved(proc[q])]
    /\ UNCHANGED <<sess, client, codec>>

Free(p) == proc[p].pc \in {"idle", "done"}

\* Request slots are interchangeable: a request takes the lowest free one.
Lowest(p) == \A q \in Procs : q < p => ~Free(q)

Busy(p) == \E q \in Procs \ {p} : ~Free(q)

\* A request arrives in a free slot; at most budget requests ever arrive
\* while another is in flight.
ArriveWithin(budget, p, op, id, tag, title, done, pc) ==
    /\ Free(p)
    /\ Lowest(p)
    /\ Busy(p) => races < budget
    /\ races' = IF Busy(p) THEN races + 1 ELSE races
    /\ Step(p, [Idle EXCEPT !.pc = pc, !.op = op, !.todo_id = id, !.tag = tag,
                            !.title = title, !.done = done,
                            !.solo = TRUE, !.pre = redis])
    /\ UNCHANGED <<redis, used>>

Arrive(p, op, id, tag, title, done, pc) ==
    ArriveWithin(MaxRaces, p, op, id, tag, title, done, pc)

Respond(r, status, body) == [r EXCEPT !.pc = "done", !.status = status, !.body = body]

\* A request that writes arrives and its handler starts (runs up to its
\* first await).
receive_write(p) ==
    \/ \E data \in Payloads :
          Arrive(p, "create", NoId, NoTag, data.title, data.done, "save_todo")
    \/ \E id \in Ids, data \in Payloads :
          Arrive(p, "update", id, NoTag, data.title, data.done, "get_todo")
    \/ \E id \in Ids : Arrive(p, "delete", id, NoTag, NoTitle, FALSE, "delete_smembers")
    \/ \E id \in Ids, tag \in Tags :
          Arrive(p, "add_tag", id, tag, NoTitle, FALSE, "get_todo")
    \/ \E id \in Ids, tag \in Tags :
          Arrive(p, "remove_tag", id, tag, NoTitle, FALSE, "get_todo")

\* A request on one todo arrives: one that writes, a fetch or a list-tags-of.
receive(p) ==
    \/ receive_write(p)
    \/ \E id \in Ids : Arrive(p, "get", id, NoTag, NoTitle, FALSE, "get_todo")
    \/ \E id \in Ids : Arrive(p, "get_tags", id, NoTag, NoTitle, FALSE, "get_todo")

\* Mutant of uuid4: an id that may have been produced before.
uuid4_reused == Ids

\* uuid4(): an id never produced before.  Ids are opaque and nothing orders
\* them, so the unused ids are interchangeable and the least one stands for
\* them all.
uuid4 == {id \in Ids \ used : \A other \in Ids \ used : id <= other}

\* create_todo_handler: Todo(id=str(uuid4()), ...), save_todo, 201 + to_out.
create_todo_handler(p) ==
    /\ proc[p].pc = "save_todo"
    /\ proc[p].op = "create"
    /\ \E id \in uuid4 :
          LET todo == Todo(id, proc[p].title, proc[p].done, {}) IN
          /\ redis' = save_todo(redis, todo)
          /\ used' = used \cup {id}
          /\ UNCHANGED races
          /\ Step(p, Respond([proc[p] EXCEPT !.todo = todo], HTTP_201_CREATED, to_out(todo)))

\* What a handler answers when get_todo returned None: get_tags_handler an
\* empty list (line 371), the others 404.
NotFound(r) ==
    IF r.op = "get_tags"
      THEN Respond(r, HTTP_200_OK, NoTodo)
      ELSE Respond(r, HTTP_404_NOT_FOUND, NoTodo)

\* The part of get_todo's local `todo` that its caller can still read: tags
\* are overwritten by get_todo itself (line 168), title and done by
\* update_todo_handler (lines 342-343), and add_tag_handler and
\* remove_tag_handler only test it for None.
Live(op, todo) ==
    CASE op = "get" -> [todo EXCEPT !.tags = {}]
      [] op = "update" -> Todo(todo.id, NoTitle, FALSE, {})
      [] OTHER -> NoTodo

\* Mutant of get_todo_data: add_tag_handler goes on without a record.
get_todo_data_unchecked(p) ==
    /\ proc[p].pc = "get_todo"
    /\ IF HasData(redis, proc[p].todo_id)
         THEN Step(p, [proc[p] EXCEPT !.pc = "get_tags_for_todo",
                                      !.todo = Live(proc[p].op, loads(redis.item[proc[p].todo_id]))])
         ELSE IF proc[p].op = "add_tag"
           THEN Step(p, [proc[p] EXCEPT !.pc = "get_tags_for_todo"])
           ELSE Step(p, NotFound(proc[p]))
    /\ UNCHANGED <<redis, used, races>>

\* Mutant of get_todo_data: get_tags_handler goes on without a record.
get_todo_data_tags_unchecked(p) ==
    /\ proc[p].pc = "get_todo"
    /\ IF HasData(redis, proc[p].todo_id)
         THEN Step(p, [proc[p] EXCEPT !.pc = "get_tags_for_todo",
                                      !.todo = Live(proc[p].op, loads(redis.item[proc[p].todo_id]))])
         ELSE IF proc[p].op = "get_tags"
           THEN Step(p, [proc[p] EXCEPT !.pc = "get_tags_for_todo"])
           ELSE Step(p, NotFound(proc[p]))
    /\ UNCHANGED <<redis, used, races>>

\* get_todo, first round trip: GET item; None when there is no data, and
\* then the calling handler answers 404.
get_todo_data(p) ==
    /\ proc[p].pc = "get_todo"
    /\ IF HasData(redis, proc[p].todo_id)
         THEN Step(p, [proc[p] EXCEPT !.pc = "get_tags_for_todo",
                                      !.todo = Live(proc[p].op, loads(redis.item[proc[p].todo_id]))])
         ELSE Step(p, NotFound(proc[p]))
    /\ UNCHANGED <<redis, used, races>>

\* get_todo, second round trip: todo.tags = SMEMBERS forward set; then
\* the calling handler goes on.
get_todo_tags(p) ==
    /\ proc[p].pc = "get_tags_for_todo"
    /\ LET todo == [proc[p].todo EXCEPT !.tags = get_tags_for_todo(redis, proc[p].todo_id)] IN
       CASE proc[p].op = "get" ->
              Step(p, Respond([proc[p] EXCEPT !.todo = todo], HTTP_200_OK, to_out(todo)))
         [] proc[p].op = "update" ->
              Step(p, [proc[p] EXCEPT !.pc = "save_todo",
                         !.todo = apply_update(todo, proc[p].title, proc[p].done)])
         [] proc[p].op = "add_tag" ->
              Step(p, [proc[p] EXCEPT !.pc = "add_tag_to_todo"])
         [] proc[p].op = "remove_tag" ->
              Step(p, [proc[p] EXCEPT !.pc = "remove_tag_from_todo"])
         [] proc[p].op = "get_tags" ->
              Step(p, [proc[p] EXCEPT !.pc = "get_tags_handler"])
    /\ UNCHANGED <<redis, used, races>>

\* update_todo_handler, last round trip: save_todo(todo), 200 + to_out.
update_todo_handler(p) ==
    /\ proc[p].pc = "save_todo"
    /\ proc[p].op = "update"
    /\ redis' = save_todo(redis, proc[p].todo)
    /\ Step(p, Respond(proc[p], HTTP_200_OK, to_out(proc[p].todo)))
    /\ UNCHANGED <<used, races>>

\* delete_todo, first round trip: SMEMBERS of the forward set.
delete_smembers(p) ==
    /\ proc[p].pc = "delete_smembers"
    /\ Step(p, [proc[p] EXCEPT !.pc = "delete_todo",
                               !.tgs = get_tags_for_todo(redis, proc[p].todo_id)])
    /\ UNCHANGED <<redis, used, races>>

\* Mutant of delete_todo_handler: 404 when the pipeline found nothing to delete.
delete_todo_handler_checked(p) ==
    /\ proc[p].pc = "delete_todo"
    /\ redis' = delete_todo(redis, proc[p].todo_id, proc[p].tgs)
    /\ Step(p, Respond(proc[p],
                       IF HasData(redis, proc[p].todo_id)
                         THEN HTTP_204_NO_CONTENT ELSE HTTP_404_NOT_FOUND,
                       NoTodo))
    /\ UNCHANGED <<used, races>>

\* delete_todo_handler, last round trip: the delete pipeline, then 204.
delete_todo_handler(p) ==
    /\ proc[p].pc = "delete_todo"
    /\ redis' = delete_todo(redis, proc[p].todo_id, proc[p].tgs)
    /\ Step(p, Respond(proc[p], HTTP_204_NO_CONTENT, NoTodo))
    /\ UNCHANGED <<used, races>>

\* add_tag_handler, last round trip: add_tag_to_todo, then 201.
add_tag_handler(p) ==
    /\ proc[p].pc = "add_tag_to_todo"
    /\ redis' = add_tag_to_todo(redis, proc[p].todo_id, proc[p].tag)
    /\ Step(p, Respond(proc[p], HTTP_201_CREATED, NoTodo))
    /\ UNCHANGED <<used, races>>

\* remove_tag_handler, last round trip: remove_tag_from_todo, then 204.
remove_tag_handler(p) ==
    /\ proc[p].pc = "remove_tag_from_todo"
    /\ redis' = remove_tag_from_todo(redis, proc[p].todo_id, proc[p].tag)
    /\ Step(p, Respond(proc[p], HTTP_204_NO_CONTENT, NoTodo))
    /\ UNCHANGED <<used, races>>

\* get_tags_handler, last round trip: get_tags_for_todo again, 200 + the list.
get_tags_handler(p) ==
    /\ proc[p].pc = "get_tags_handler"
    /\ Step(p, [Respond(proc[p], HTTP_200_OK, NoTodo)
                   EXCEPT !.names = get_tags_for_todo(redis, proc[p].todo_id)])
    /\ UNCHANGED <<redis, used, races>>

\* A list request arrives: list_todos(limit) or get_todos_by_tag(tag, limit)
\* starts (runs up to its first await).
ArriveList(p, op, tag, limit, pc) ==
    /\ Free(p)
    /\ Lowest(p)
    /\ Busy(p) => races < MaxRaces
    /\ races' = IF Busy(p) THEN races + 1 ELSE races
    /\ Step(p, [Idle EXCEPT !.pc = pc, !.op = op, !.tag = tag, !.limit = limit,
                            !.solo = TRUE, !.pre = redis])
    /\ UNCHANGED <<redis, used>>

ReadOps == {"list", "by_tag"}

InFlight(ops) == \E q \in Procs : ~Free(q) /\ proc[q].op \in ops

\* The handlers call the two functions with their default limit; the
\* functions take any limit.
receive_list(p) ==
    \/ \E limit \in Limits : ArriveList(p, "list", NoTag, limit, "sscan")
    \/ \E tag \in Tags, limit \in Limits : ArriveList(p, "by_tag", tag, limit, "smembers")

\* After the ids are collected: "if not ids: return []", else ids[:limit]
\* and on to the batch fetch (got: how many ids were collected; pages, mgets
\* and pipes count the SSCAN, MGET and pipeline round trips of the call).
Collected(r, ids) ==
    IF ids = <<>>
      THEN [r EXCEPT !.pc = "done", !.status = HTTP_200_OK,
                     !.cursor = 0, !.left = {}, !.snap = {}, !.ids = <<>>]
      ELSE [r EXCEPT !.pc = "mget", !.cursor = 0, !.left = {}, !.snap = {},
                     !.got = Len(ids), !.ids = Take(ids, r.limit)]

\* Mutant of ScanEnds: the loop ends only when the index is exhausted.
ScanEnds_exhausted(cursor, ids, limit) == cursor = 0

\* "if cursor == 0 or len(ids) >= limit: break"
ScanEnds(cursor, ids, limit) == cursor = 0 \/ Len(ids) >= limit

\* One round of the loop of list_todos: one SSCAN page is appended to ids
\* and the loop ends on cursor 0 or when limit ids are collected.
\* A scan started with cursor 0 returns every member that stays in the set
\* until the scan ends (left: those not yet returned); members added
\* meanwhile, and members already returned when the set changed between two
\* pages, may come too. The page carries at most about ScanCount members,
\* in any order; the cursor is 0 when nothing is left.
list_sscan(p) ==
    /\ proc[p].pc = "sscan"
    /\ LET r == proc[p]
           left == IF r.cursor = 0 THEN redis.index ELSE r.left \cap redis.index
           more == IF r.cursor = 0 \/ r.snap = redis.index THEN {} ELSE redis.index \ left
       IN \E B \in SUBSET left, X \in SUBSET more :
            /\ left # {} => B # {}
            /\ Cardinality(B \cup X) <= ScanCount
            /\ \E batch \in Orders(B \cup X) :
                 LET ids == r.ids \o batch
                     cursor == IF left \ B = {} THEN 0 ELSE 1
                 IN Step(p, IF ScanEnds(cursor, ids, r.limit)
                              THEN Collected([r EXCEPT !.pages = @ + 1], ids)
                              ELSE [r EXCEPT !.cursor = cursor, !.left = left \ B,
                                             !.snap = redis.index, !.ids = ids,
                                             !.pages = @ + 1])
    /\ UNCHANGED <<redis, used, races>>

\* Mutant of by_tag_smembers: the ids are those of the primary index.
by_tag_smembers_index(p) ==
    /\ proc[p].pc = "smembers"
    /\ \E ids \in Orders(redis.index) :
          Step(p, Collected(proc[p], ids))
    /\ UNCHANGED <<redis, used, races>>

\* get_todos_by_tag: SMEMBERS of the reverse set, list(ids) in some order.
by_tag_smembers(p) ==
    /\ proc[p].pc = "smembers"
    /\ \E ids \in Orders(redis.todos_by_tag[proc[p].tag]) :
          Step(p, Collected(proc[p], ids))
    /\ UNCHANGED <<redis, used, races>>

\* values = await redis.mget(keys), in both list functions.
batch_mget(p) ==
    /\ proc[p].pc = "mget"
    /\ LET reply == mget(redis, proc[p].ids)
       IN Step(p, IF reply.ok
                    THEN [proc[p] EXCEPT !.pc = "pipeline", !.values = reply.values,
                                         !.mgets = @ + 1]
                    ELSE [proc[p] EXCEPT !.pc = "done", !.status = 500, !.mgets = @ + 1])
    /\ UNCHANGED <<redis, used, races>>

\* tags_results = await pipe.execute() and the loop that builds the todos,
\* in both list functions.
batch_smembers(p) ==
    /\ proc[p].pc = "pipeline"
    /\ Step(p, [proc[p] EXCEPT !.pc = "done", !.status = HTTP_200_OK,
                               !.pipes = @ + 1,
                               !.items = combine(proc[p].values,
                                                 smembers_all(redis, proc[p].ids), 1)])
    /\ UNCHANGED <<redis, used, races>>

Next ==
    \E p \in Procs :
        \/ receive(p)
        \/ create_todo_handler(p)
        \/ get_todo_data(p)
        \/ get_todo_tags(p)
        \/ update_todo_handler(p)
        \/ delete_smembers(p)
        \/ delete_todo_handler(p)
        \/ add_tag_handler(p)
        \/ remove_tag_handler(p)
        \/ get_tags_handler(p)

Spec == Init /\ [][Next]_vars

\* A create, a delete or a tag mutation arrives.
receive_tag(p) ==
    \/ \E data \in Payloads :
          ArriveWithin(MaxTagRaces, p, "create", NoId, NoTag, data.title, data.done, "save_todo")
    \/ \E id \in Ids :
          ArriveWithin(MaxTagRaces, p, "delete", id, NoTag, NoTitle, FALSE, "delete_smembers")
    \/ \E id \in Ids, tag \in Tags :
          ArriveWithin(MaxTagRaces, p, "add_tag", id, tag, NoTitle, FALSE, "get_todo")
    \/ \E id \in Ids, tag \in Tags :
          ArriveWithin(MaxTagRaces, p, "remove_tag", id, tag, NoTitle, FALSE, "get_todo")

\* Creates, deletes and tag mutations, with up to MaxTagRaces requests
\* arriving while another is in flight.
TagNext ==
    \E p \in Procs :
        \/ receive_tag(p)
        \/ create_todo_handler(p)
        \/ get_todo_data(p)
        \/ get_todo_tags(p)
        \/ delete_smembers(p)
        \/ delete_todo_handler(p)
        \/ add_tag_handler(p)
        \/ remove_tag_handler(p)

TagSpec == Init /\ [][TagNext]_vars

\* The list operations, each next to at most one request that writes.
ListNext ==
    \E p \in Procs :
        \/ ~InFlight(ReadOps) /\ receive_list(p)
        \/ (Busy(p) => InFlight(ReadOps)) /\ receive_write(p)
        \/ list_sscan(p)
        \/ by_tag_smembers(p)
        \/ batch_mget(p)
        \/ batch_smembers(p)
        \/ create_todo_handler(p)
        \/ get_todo_data(p)
        \/ get_todo_tags(p)
        \/ update_todo_handler(p)
        \/ delete_smembers(p)
        \/ delete_todo_handler(p)
        \/ add_tag_handler(p)
        \/ remove_tag_handler(p)

ListSpec == Init /\ [][ListNext]_vars

\* A create or a delete arrives: the requests that change the primary index.
receive_index_write(p) ==
    \/ \E data \in Payloads :
          Arrive(p, "create", NoId, NoTag, data.title, data.done, "save_todo")
    \/ \E id \in Ids : Arrive(p, "delete", id, NoTag, NoTitle, FALSE, "delete_smembers")

\* list_todos, next to at most one create or delete.
ScanNext ==
    \E p \in Procs :
        \/ ~InFlight({"list"}) /\ (\E limit \in Limits : ArriveList(p, "list", NoTag, limit, "sscan"))
        \/ (Busy(p) => InFlight({"list"})) /\ receive_index_write(p)
        \/ list_sscan(p)
        \/ batch_mget(p)
        \/ batch_smembers(p)
        \/ create_todo_handler(p)
        \/ delete_smembers(p)
        \/ delete_todo_handler(p)

ScanSpec == Init /\ [][ScanNext]_vars

\* A list call that awaits a reply of the store is resumed when the reply
\* is there: each of its round trips is taken eventually.
ScanFairSpec ==
    /\ ScanSpec
    /\ \A p \in Procs :
          /\ WF_vars(list_sscan(p))
          /\ WF_vars(batch_mget(p))
          /\ WF_vars(batch_smembers(p))

\* ---- Sessions: login, me, logout ----

RECURSIVE lstrip(_)
lstrip(name) ==
    IF name # <<>> /\ Head(name) \in Whitespace THEN lstrip(Tail(name)) ELSE name

RECURSIVE rstrip(_)
rstrip(name) ==
    IF name # <<>> /\ name[Len(name)] \in Whitespace
      THEN rstrip(SubSeq(name, 1, Len(name) - 1))
      ELSE name

\* Mutant of strip: only leading whitespace is removed.
strip_left(name) == lstrip(name)

\* str.strip(): leading and trailing whitespace removed.
strip(name) == rstrip(lstrip(name))

\* request.session.get("user", "")
session_get_user(session) == IF "user" \in DOMAIN session THEN session["user"] ELSE NoName

Reply(c, op, status, name) == [c EXCEPT !.op = op, !.status = status, !.name = name]

\* POST /login: the stripped name is stored under "user" and returned; an
\* empty one is returned without touching the session.
login(s) ==
    /\ \E name \in Names :
         LET user == strip(name)
             sent == [client[s] EXCEPT !.last_op = "login", !.last_name = name]
         IN /\ sess' = IF user = NoName THEN sess
                       ELSE [sess EXCEPT ![s] = SetKey(sess[s], "user", user)]
            /\ client' = [client EXCEPT ![s] = Reply(sent, "login", HTTP_201_CREATED, user)]
    /\ UNCHANGED <<redis, proc, used, races, codec>>

\* GET /me
me(s) ==
    /\ client' = [client EXCEPT ![s] = Reply(client[s], "me", HTTP_200_OK, session_get_user(sess[s]))]
    /\ UNCHANGED <<redis, proc, used, races, sess, codec>>

\* DELETE /logout: request.session.clear()
logout(s) ==
    /\ sess' = [sess EXCEPT ![s] = EmptySession]
    /\ client' = [client EXCEPT ![s] =
                     Reply([client[s] EXCEPT !.last_op = "logout", !.last_name = NoName],
                           "logout", HTTP_204_NO_CONTENT, NoName)]
    /\ UNCHANGED <<redis, proc, used, races, codec>>

\* The requests of a session are sent one after the other; sessions are
\* served in any order.
SessionNext == \E s \in Sessions : login(s) \/ me(s) \/ logout(s)

SessionSpec == Init /\ [][SessionNext]_vars

\* ---- The codec: Todo.dumps and Todo.loads ----

CodecInit ==
    /\ redis = EmptyDB
    /\ proc = [p \in Procs |-> Idle]
    /\ used = {}
    /\ races = 0
    /\ sess = [s \in Sessions |-> EmptySession]
    /\ client = [s \in Sessions |-> NoRequest]
    /\ codec \in {[CodecIdle EXCEPT !.stage = "todo", !.todo = t] : t \in ValidTodos}

Encode ==
    /\ codec.stage = "todo"
    /\ codec' = [codec EXCEPT !.stage = "encoded", !.data = dumps(codec.todo)]
    /\ UNCHANGED <<redis, proc, used, races, sess, client>>

Decode ==
    /\ codec.stage = "encoded"
    /\ codec' = [codec EXCEPT !.stage = "decoded", !.back = loads(codec.data)]
    /\ UNCHANGED <<redis, proc, used, races, sess, client>>

CodecNext == Encode \/ Decode

CodecSpec == CodecInit /\ [][CodecNext]_vars

\* ---------------------------------------------------------------- claims
\* A request of slot p has been answered and no other slot took a step
\* between its arrival and now: redis is the store it left, proc[p].pre the
\* store it found.
Alone(p, op) == proc[p].pc = "done" /\ proc[p].solo /\ proc[p].op = op

\* Membership of the pair (t, g) on both sides of the tag index.
Forward(db, t, g) == g \in db.tags[t]
Reverse(db, t, g) == t \in db.todos_by_tag[g]

\* No trace of id t in any index of db.
NoTrace(db, t) ==
    /\ t \notin db.index
    /\ ~HasData(db, t)
    /\ db.tags[t] = {}
    /\ \A g \in Tags : t \notin db.todos_by_tag[g]

\* C1: in every reachable store state, todo id T is in the reverse set of
\* tag G if and only if G is in the forward tag set of T.
C1_Bidirectional ==
    \A t \in Ids, g \in Tags : Reverse(redis, t, g) <=> Forward(redis, t, g)

\* C2: in every reachable store state a todo id is in the primary index if
\* and only if a record exists at its item key.
C2_IndexIffRecord ==
    \A t \in Ids : t \in redis.index <=> HasData(redis, t)

\* C2 witness: a delete has removed a todo while an update of the same todo,
\* which had found it, is about to save it.
C2_Witness ==
    \E p, q \in Procs :
        /\ proc[q].pc = "done" /\ proc[q].op = "delete"
        /\ proc[p].pc = "save_todo" /\ proc[p].op = "update"
        /\ proc[p].todo_id = proc[q].todo_id
        /\ proc[p].todo_id \notin redis.index

\* C3: whenever no request is in flight, every todo id that is in some
\* tag's reverse set or has a non-empty forward tag set is in the primary
\* index.
C3_NoOrphans ==
    (\A p \in Procs : Free(p)) =>
        \A t \in Ids :
            (redis.tags[t] # {} \/ \E g \in Tags : t \in redis.todos_by_tag[g])
                => t \in redis.index

\* C4: after delete(T) run with no other request interleaved, T is not in
\* the primary index, has no record and no forward tag set, is in the
\* reverse set of no tag it carried before, a fetch of T gives not-found,
\* and neither list nor list-by-tag of a former tag contains T.
C4_CascadeDelete ==
    \A p \in Procs :
        Alone(p, "delete") =>
            LET T == proc[p].todo_id
                pre == proc[p].pre IN
            /\ T \notin redis.index
            /\ ~HasData(redis, T)
            /\ redis.tags[T] = {}
            /\ \A g \in pre.tags[T] : T \notin redis.todos_by_tag[g]
            /\ ~get_todo(redis, T).found
            /\ \A todo \in list_todos(redis) : todo.id # T
            /\ \A g \in pre.tags[T] : \A todo \in get_todos_by_tag(redis, g) : todo.id # T

\* C4 witness: a delete run alone has removed a live todo that carried a
\* tag, in a run whose requests all ran one at a time.
C4_Witness ==
    \E p \in Procs :
        /\ Alone(p, "delete")
        /\ races = 0
        /\ HasData(proc[p].pre, proc[p].todo_id)
        /\ proc[p].pre.tags[proc[p].todo_id] # {}
        /\ \E g \in Tags : proc[p].todo_id \in proc[p].pre.todos_by_tag[g]

\* Every pair other than (T, G) is a member on each side exactly as before.
OtherPairsUnchanged(pre, T, G) ==
    \A t \in Ids, g \in Tags :
        <<t, g>> # <<T, G>> =>
            /\ Forward(redis, t, g) <=> Forward(pre, t, g)
            /\ Reverse(redis, t, g) <=> Reverse(pre, t, g)

\* C5: for an existing todo T and tag G, with no other request interleaved,
\* after add-tag(T, G) the pair is a member on both sides, after
\* remove-tag(T, G) on neither, and every other pair is as it was.
C5_TagBothSides ==
    \A p \in Procs :
        LET T == proc[p].todo_id
            G == proc[p].tag
            pre == proc[p].pre IN
        /\ (Alone(p, "add_tag") /\ HasData(pre, T)) =>
              /\ proc[p].status = HTTP_201_CREATED
              /\ Forward(redis, T, G) /\ Reverse(redis, T, G)
              /\ OtherPairsUnchanged(pre, T, G)
        /\ (Alone(p, "remove_tag") /\ HasData(pre, T)) =>
              /\ proc[p].status = HTTP_204_NO_CONTENT
              /\ ~Forward(redis, T, G) /\ ~Reverse(redis, T, G)
              /\ OtherPairsUnchanged(pre, T, G)

\* C5 witness: a remove-tag run alone took a tag off a todo that carried it
\* while another todo carried a tag too.
C5_Witness ==
    \E p \in Procs :
        /\ Alone(p, "remove_tag")
        /\ HasData(proc[p].pre, proc[p].todo_id)
        /\ Forward(proc[p].pre, proc[p].todo_id, proc[p].tag)
        /\ \E t \in Ids \ {proc[p].todo_id} : redis.tags[t] # {}

\* C6: an update of an existing todo, run alone, replaces its title and done
\* with the request's values; the primary index, every forward and reverse
\* tag set and every other record are unchanged, and a following fetch
\* returns the same id, the new title and done, and the same tags.
C6_UpdateFrame ==
    \A p \in Procs :
        LET T == proc[p].todo_id
            pre == proc[p].pre IN
        (Alone(p, "update") /\ HasData(pre, T)) =>
            /\ proc[p].status = HTTP_200_OK
            /\ redis.index = pre.index
            /\ redis.tags = pre.tags
            /\ redis.todos_by_tag = pre.todos_by_tag
            /\ DOMAIN redis.item = DOMAIN pre.item
            /\ \A t \in DOMAIN pre.item : t # T => redis.item[t] = pre.item[t]
            /\ get_todo(redis, T) =
                  [found |-> TRUE,
                   todo |-> Todo(T, proc[p].title, proc[p].done, get_todo(pre, T).todo.tags)]
            /\ proc[p].body = get_todo(redis, T).todo

\* C6 witness: an update run alone changed the title and the done of a todo
\* that carries a tag.
C6_Witness ==
    \E p \in Procs :
        /\ Alone(p, "update")
        /\ HasData(proc[p].pre, proc[p].todo_id)
        /\ proc[p].pre.tags[proc[p].todo_id] # {}
        /\ get_todo(proc[p].pre, proc[p].todo_id).todo.title # proc[p].title
        /\ get_todo(proc[p].pre, proc[p].todo_id).todo.done # proc[p].done

\* C7: with no other request interleaved, fetch, update, add-tag and
\* remove-tag on an id that has no record return 404 and leave the whole
\* store unchanged.
C7_NotFoundNoEffect ==
    \A p \in Procs :
        ( /\ \E op \in {"get", "update", "add_tag", "remove_tag"} : Alone(p, op)
          /\ ~HasData(proc[p].pre, proc[p].todo_id) ) =>
            /\ proc[p].status = HTTP_404_NOT_FOUND
            /\ redis = proc[p].pre

\* C7 witness: an add-tag run alone on an id without a record was answered.
C7_Witness ==
    \E p \in Procs :
        /\ Alone(p, "add_tag")
        /\ ~HasData(proc[p].pre, proc[p].todo_id)

\* C8: deleting an id that is already absent succeeds, and afterwards the
\* id is in no index: not in the primary index, without record, without
\* forward tag set and in no tag's reverse set.
C8_DeleteIdempotent ==
    \A p \in Procs :
        (Alone(p, "delete") /\ ~HasData(proc[p].pre, proc[p].todo_id)) =>
            /\ proc[p].status = HTTP_204_NO_CONTENT
            /\ NoTrace(redis, proc[p].todo_id)

\* C9 as stated: a delete request on an id that does not exist returns the
\* not-found signal.
C9_DeleteNotFound ==
    \A p \in Procs :
        (Alone(p, "delete") /\ ~HasData(proc[p].pre, proc[p].todo_id)) =>
            proc[p].status = HTTP_404_NOT_FOUND

\* C9 amended: a delete request returns 204 No Content whether or not the id
\* exists, where fetch, update, add-tag and remove-tag on an id without a
\* record return 404.
C9_DeleteAlways204 ==
    \A p \in Procs :
        /\ (proc[p].pc = "done" /\ proc[p].op = "delete") =>
              proc[p].status = HTTP_204_NO_CONTENT
        /\ ( /\ \E op \in {"get", "update", "add_tag", "remove_tag"} : Alone(p, op)
             /\ ~HasData(proc[p].pre, proc[p].todo_id) ) =>
              proc[p].status = HTTP_404_NOT_FOUND

\* C9 witness: a delete of an id that was never created was answered.
C9_Witness ==
    \E p \in Procs :
        /\ Alone(p, "delete")
        /\ proc[p].todo_id \notin used
        /\ ~HasData(proc[p].pre, proc[p].todo_id)

\* C10: get(id) is not-found whenever there is no record at the item key,
\* even when a non-empty forward tag set exists for the id; with a record it
\* returns the record's id, title and done with tags equal to the forward
\* tag set.
C10_GetTodo ==
    \A p \in Procs :
        Alone(p, "get") =>
            LET T == proc[p].todo_id
                pre == proc[p].pre IN
            IF HasData(pre, T)
              THEN /\ proc[p].status = HTTP_200_OK
                   /\ proc[p].body.id = loads(pre.item[T]).id
                   /\ proc[p].body.title = loads(pre.item[T]).title
                   /\ proc[p].body.done = loads(pre.item[T]).done
                   /\ proc[p].body.tags = pre.tags[T]
              ELSE /\ proc[p].status = HTTP_404_NOT_FOUND
                   /\ proc[p].body = NoTodo

\* C10 witness: a get run alone was answered not-found on an id that has no
\* record but a non-empty forward tag set.
C10_Witness ==
    \E p \in Procs :
        /\ Alone(p, "get")
        /\ ~HasData(proc[p].pre, proc[p].todo_id)
        /\ proc[p].pre.tags[proc[p].todo_id] # {}
        /\ proc[p].status = HTTP_404_NOT_FOUND

C12_Create ==
    \A p \in Procs :
        Alone(p, "create") =>
            LET out == proc[p].body
                pre == proc[p].pre IN
            /\ proc[p].status = HTTP_201_CREATED
            /\ out = Todo(out.id, proc[p].title, proc[p].done, {})
            /\ out.id \in Ids
            /\ NoTrace(pre, out.id)
            /\ redis.index = pre.index \cup {out.id}
            /\ DOMAIN redis.item = DOMAIN pre.item \cup {out.id}
            /\ \A t \in DOMAIN pre.item : redis.item[t] = pre.item[t]
            /\ redis.tags = pre.tags
            /\ redis.todos_by_tag = pre.todos_by_tag
            /\ get_todo(redis, out.id) = [found |-> TRUE, todo |-> out]

\* C12 witness: a create run alone added a second todo beside one that
\* carries a tag.
C12_Witness ==
    \E p \in Procs :
        /\ Alone(p, "create")
        /\ \E t \in proc[p].pre.index : proc[p].pre.tags[t] # {}
        /\ proc[p].body.id \in redis.index \ proc[p].pre.index

\* ---- The list operations (ListSpec) ----

Range(seq) == {seq[i] : i \in 1..Len(seq)}

\* The todo of id t as a store holds it: the decoded record with the
\* forward tag set.
Resolved(db, t) == [loads(db.item[t]) EXCEPT !.tags = db.tags[t]]

\* C13: in a state reached by requests run one at a time, list-by-tag(G)
\* with its limit of 500 returns exactly the todos that have a record and
\* whose forward tag set contains G, each once and with its whole forward
\* tag set, and no other todo.
C13_ByTag ==
    \A p \in Procs :
        (Alone(p, "by_tag") /\ races = 0 /\ proc[p].limit = DefaultLimit) =>
            LET pre == proc[p].pre
                G == proc[p].tag
                carrying == {t \in DOMAIN pre.item : G \in pre.tags[t]}
            IN /\ proc[p].status = HTTP_200_OK
               /\ Range(proc[p].items) = {Resolved(pre, t) : t \in carrying}
               /\ Len(proc[p].items) = Cardinality(carrying)
               /\ \A i \in 1..Len(proc[p].items) : G \in proc[p].items[i].tags

\* C13 witness: list-by-tag ran alone in a serial history, returned a todo,
\* and left out a todo of the primary index that does not carry the tag.
C13_Witness ==
    \E p \in Procs :
        /\ Alone(p, "by_tag") /\ races = 0 /\ proc[p].limit = DefaultLimit
        /\ Len(proc[p].items) >= 1
        /\ \E t \in proc[p].pre.index : proc[p].tag \notin proc[p].pre.tags[t]

\* C14: with no other request in flight and at most limit ids in the
\* primary index, list returns every todo of the primary index, each once
\* and with its forward tag set; on an empty index the empty sequence.
C14_ListAll ==
    \A p \in Procs :
        (Alone(p, "list") /\ Cardinality(proc[p].pre.index) <= proc[p].limit) =>
            LET pre == proc[p].pre
            IN /\ proc[p].status = HTTP_200_OK
               /\ pre.index \subseteq DOMAIN pre.item
               /\ Range(proc[p].items) = {Resolved(pre, t) : t \in pre.index \cap DOMAIN pre.item}
               /\ Len(proc[p].items) = Cardinality(pre.index)
               /\ pre.index = {} => proc[p].items = <<>>

\* C14 witness: list ran alone with a limit equal to the size of the
\* primary index and returned two todos, one of them tagged.
C14_Witness ==
    \E p \in Procs :
        /\ Alone(p, "list")
        /\ Cardinality(proc[p].pre.index) = proc[p].limit
        /\ Len(proc[p].items) = 2
        /\ \E i \in 1..2 : proc[p].items[i].tags # {}

\* C15: list(limit=n) and list-by-tag(tag, limit=n) with n >= 0 return at
\* most n todos, whatever the store and whatever another request does
\* meanwhile.
C15_AtMostLimit ==
    \A p \in Procs :
        (proc[p].pc = "done" /\ proc[p].op \in ReadOps /\ proc[p].limit >= 0) =>
            Len(proc[p].items) <= proc[p].limit

\* C15 witness: list with limit 1 collected two ids from its scan (the page
\* held more ids than remained under the limit) and returned one todo.
C15_Witness ==
    \E p \in Procs :
        /\ proc[p].pc = "done" /\ proc[p].op = "list"
        /\ proc[p].limit = 1 /\ proc[p].got = 2
        /\ Len(proc[p].items) = 1

Present(r) == {i \in 1..Len(r.values) : r.values[i].some}

\* The k-th smallest position of a set of positions.
Nth(S, k) == CHOOSE i \in S : Cardinality({j \in S : j < i}) = k - 1

\* C19: when list or list-by-tag has assembled its result, it answers
\* without error, the result holds one todo per fetched id whose record was
\* there at the fetch, in the order of the ids, and each todo has the record
\* fetched for its id and the forward tag set read for that same id.
C19_Assembly ==
    \A p \in Procs :
        (proc[p].pc = "done" /\ proc[p].op \in ReadOps /\ proc[p].got > 0) =>
            LET r == proc[p]
            IN /\ r.status = HTTP_200_OK
               /\ Len(r.values) = Len(r.ids)
               /\ Len(r.items) = Cardinality(Present(r))
               /\ \A k \in 1..Len(r.items) :
                     LET i == Nth(Present(r), k)
                     IN /\ r.items[k].id = r.ids[i]
                        /\ r.items[k] = [loads(r.values[i].data) EXCEPT
                                            !.tags = redis.tags[r.ids[i]]]

\* C19 witness: the record of the first of two fetched ids was gone at the
\* fetch (a delete ran after the ids were read); the todo of the second id
\* is returned with its own, non-empty, tag set.
C19_Witness ==
    \E p \in Procs :
        /\ proc[p].pc = "done" /\ proc[p].op \in ReadOps
        /\ Len(proc[p].ids) = 2
        /\ ~proc[p].values[1].some /\ proc[p].values[2].some
        /\ Len(proc[p].items) = 1
        /\ proc[p].items[1].id = proc[p].ids[2]
        /\ proc[p].items[1].tags # {}
        /\ redis.tags[proc[p].ids[1]] = {}

\* ---- Sessions (SessionSpec) ----

\* trimmed is name without the whitespace around it.
IsTrimOf(trimmed, name) ==
    /\ trimmed # <<>> => (trimmed[1] \notin Whitespace /\ trimmed[Len(trimmed)] \notin Whitespace)
    /\ \E i \in 0..Len(name), j \in 0..Len(name) :
          /\ i + Len(trimmed) + j = Len(name)
          /\ \A k \in 1..Len(name) :
                IF k <= i \/ k > i + Len(trimmed)
                  THEN name[k] \in Whitespace
                  ELSE name[k] = trimmed[k - i]

\* C17: in each session, a me sent when the last login or logout was a
\* login with a name that is not blank returns that name trimmed; a me sent
\* before any login, or when the last of them was a logout, returns the
\* empty name.
C17_Me ==
    \A s \in Sessions :
        client[s].op = "me" =>
            /\ client[s].status = HTTP_200_OK
            /\ client[s].last_op \in {"none", "logout"} => client[s].name = NoName
            /\ (client[s].last_op = "login" /\ ~IsTrimOf(NoName, client[s].last_name)) =>
                  (client[s].name # NoName /\ IsTrimOf(client[s].name, client[s].last_name))

\* C17 witness: a session logged in with a name with whitespace around it
\* and me returned the trimmed name, while another session that has logged
\* out got the empty name.
C17_Witness ==
    \E s, o \in Sessions :
        /\ client[s].op = "me" /\ client[s].last_op = "login"
        /\ client[s].last_name = <<"b", " ">>
        /\ client[s].name = <<"b">>
        /\ client[o].op = "me" /\ client[o].last_op = "logout"
        /\ client[o].name = NoName

\* ---- The codec (CodecSpec) ----

Content(db, t) == <<loads(db.item[t]).title, loads(db.item[t]).done>>

\* Slot p completes an update of todo t in this step: its save lands.
UpdateLands(p, t) ==
    /\ proc[p].op = "update" /\ proc[p].pc = "save_todo" /\ proc[p].todo_id = t
    /\ proc'[p].pc = "done"

\* C20: however update requests interleave, the save of an update stores the
\* title and the done of that one request, and the title and done of an
\* existing record change only when the save of an update on its id lands;
\* so the record left when all have finished has both fields from the
\* request whose save landed last.
C20_UpdateWhole ==
    [][/\ \A p \in Procs, t \in Ids :
             UpdateLands(p, t) =>
                 (HasData(redis', t) /\ Content(redis', t) = <<proc[p].title, proc[p].done>>)
       /\ \A t \in DOMAIN redis.item \cap DOMAIN redis'.item :
             Content(redis', t) # Content(redis, t) => \E p \in Procs : UpdateLands(p, t)
      ]_vars

\* C20 witness: two updates of the same todo with different bodies overlap:
\* one has saved and answered, the other read the todo before that and is
\* about to save.
C20_Witness ==
    \E p, q \in Procs :
        /\ proc[p].op = "update" /\ proc[q].op = "update"
        /\ proc[p].todo_id = proc[q].todo_id
        /\ proc[p].title # proc[q].title /\ proc[p].done # proc[q].done
        /\ proc[p].pc = "done" /\ proc[p].status = HTTP_200_OK
        /\ proc[q].pc = "save_todo"
        /\ Content(redis, proc[p].todo_id) = <<proc[p].title, proc[p].done>>

\* ---- The stored record (Spec) ----

\* C21: the record stored at a todo's item key carries none of the todo's
\* tags, whatever requests have run.
C21_NoEmbeddedTags ==
    \A t \in DOMAIN redis.item : Field(redis.item[t], "tags") = {}

\* Slot p completes a create or an update in this step: its save_todo lands.
SaveLands(p) == proc[p].pc = "save_todo" /\ proc'[p].pc = "done"

\* C22: whenever save_todo runs (in a create or an update, whatever else is
\* in flight), saving the same todo once more would change nothing, the
\* record of the id is the encoding of the saved todo, no other record
\* changes, no forward or reverse tag set changes, and the primary index
\* gains at most the saved id: none if the id was in it.
C22_SaveIdempotent ==
    [][\A p \in Procs :
         SaveLands(p) =>
             LET todo == proc'[p].body
             IN /\ save_todo(redis', todo) = redis'
                /\ save_todo(save_todo(redis, todo), todo) = save_todo(redis, todo)
                /\ redis'.item[todo.id] = dumps(todo)
                /\ \A t \in DOMAIN redis.item \ {todo.id} :
                      t \in DOMAIN redis'.item /\ redis'.item[t] = redis.item[t]
                /\ DOMAIN redis'.item = DOMAIN redis.item \cup {todo.id}
                /\ redis'.index = redis.index \cup {todo.id}
                /\ todo.id \in redis.index => redis'.index = redis.index
                /\ redis'.tags = redis.tags
                /\ redis'.todos_by_tag = redis.todos_by_tag
      ]_vars

\* C22 witness: an update ran alone on a tagged todo of the primary index
\* and saved the todo that was stored already: the store is as it was.
C22_Witness ==
    \E p \in Procs :
        /\ Alone(p, "update") /\ proc[p].status = HTTP_200_OK
        /\ proc[p].todo_id \in proc[p].pre.index
        /\ proc[p].pre.tags[proc[p].todo_id] # {}
        /\ proc[p].pre.item[proc[p].todo_id] = dumps(proc[p].body)
        /\ redis = proc[p].pre

\* ---- Tag mutations (TagSpec) ----

\* Slot p completes an add-tag or a remove-tag in this step: its pipeline
\* runs.
TagLands(p, op) ==
    /\ proc[p].op = op
    /\ proc[p].pc \in {"add_tag_to_todo", "remove_tag_from_todo"}
    /\ proc'[p].pc = "done"

\* C23: an add-tag(T,G) that runs when G is in the forward set of T, and a
\* remove-tag(T,G) that runs when G is not in the forward set of T or T is
\* not in the reverse set of G, answer with success and leave the store as
\* it was; after any add-tag a second one would change nothing.
C23_SetSemantics ==
    [][\A p \in Procs :
         LET T == proc[p].todo_id
             G == proc[p].tag
         IN /\ (TagLands(p, "add_tag") /\ G \in redis.tags[T]) =>
                  (proc'[p].status = HTTP_201_CREATED /\ redis' = redis)
            /\ TagLands(p, "add_tag") => add_tag_to_todo(redis', T, G) = redis'
            /\ (TagLands(p, "remove_tag")
                  /\ (G \notin redis.tags[T] \/ T \notin redis.todos_by_tag[G])) =>
                  (proc'[p].status = HTTP_204_NO_CONTENT /\ redis' = redis)
      ]_vars

\* ---- Termination of list (ScanFairSpec) ----

\* While list is in its scan loop it has either requested no page yet or
\* the last page left the cursor off 0 and fewer than limit ids collected.
ScanGoesOn(r) ==
    r.pc = "sscan" =>
        \/ r.pages = 0 /\ r.cursor = 0 /\ r.ids = <<>>
        \/ r.pages > 0 /\ r.cursor # 0 /\ Len(r.ids) < r.limit

\* C24 as stated: a list that has answered has made one record fetch and
\* one batched tag fetch, whatever it collected.
C24_AlwaysOneFetch ==
    \A p \in Procs :
        (proc[p].op = "list" /\ proc[p].pc = "done") =>
            (proc[p].pages >= 1 /\ proc[p].mgets = 1 /\ proc[p].pipes = 1)

\* C24 amended: every list call comes to its answer; it requests a page
\* only at its start or while the cursor is off 0 and fewer than limit ids
\* are collected; and when it answers it has made exactly one record fetch
\* and one batched tag fetch if it collected an id, and none if it did not.
C24_Terminates ==
    \A p \in Procs :
        /\ [](proc[p].op = "list" => ScanGoesOn(proc[p]))
        /\ []((proc[p].op = "list" /\ proc[p].pc = "done") =>
                 /\ proc[p].pages >= 1
                 /\ proc[p].mgets = (IF proc[p].got > 0 THEN 1 ELSE 0)
                 /\ proc[p].pipes = proc[p].mgets)
        /\ (proc[p].op = "list" /\ proc[p].pc # "done") ~> (proc[p].pc = "done")

\* C24 witness: a list with a limit above the size of the index went
\* through its loop more than once and then made its two fetches.
C24_Witness ==
    \E p \in Procs :
        /\ proc[p].op = "list" /\ proc[p].pc = "done"
        /\ proc[p].limit = DefaultLimit
        /\ proc[p].pages >= 2
        /\ proc[p].mgets = 1 /\ proc[p].pipes = 1
        /\ Len(proc[p].items) >= 2

\* ---- Deleted todos (Spec) ----

\* The ids that were created and are not in the primary index: those whose
\* delete has completed (only delete_todo removes an id from the index).
Deleted(db) == used \ db.index

\* C25 as stated: once the delete of a todo has completed the todo is never
\* again in the primary index and never again has a record.
C25_StaysDeleted ==
    [][\A t \in Deleted(redis) : t \notin redis'.index /\ ~HasData(redis', t)]_vars

\* C25 amended: once the delete of a todo has completed, the todo comes back
\* into the primary index or gets a record only in a step in which the save
\* of an update of that todo lands, an update that had read the todo before
\* the delete; no create and no add-tag or remove-tag brings it back, and a
\* fetch that runs alone while the todo is deleted answers not-found.
C25_BackOnlyByUpdate ==
    /\ [][\A t \in Deleted(redis) :
             (t \in redis'.index \/ HasData(redis', t)) => \E p \in Procs : UpdateLands(p, t)]_vars
    /\ [](\A p \in Procs :
             (Alone(p, "get") /\ proc[p].todo_id \in used \ proc[p].pre.index) =>
                 proc[p].status = HTTP_404_NOT_FOUND)

\* C25 witness: an add-tag was in flight on a todo while its delete ran to
\* completion; the add-tag has finished with success and the todo is still
\* out of the primary index and without a record.
C25_Witness ==
    \E p \in Procs :
        /\ proc[p].pc = "done" /\ proc[p].op = "add_tag"
        /\ proc[p].status = HTTP_201_CREATED /\ ~proc[p].solo
        /\ proc[p].todo_id \in Deleted(redis)
        /\ ~HasData(redis, proc[p].todo_id)

\* ---- Reads under concurrent writes (Spec) ----

\* C26, for get: the todo a fetch returns (title, done and tags together)
\* is the stored state the todo had at one moment during the call, whatever
\* update, tag mutation or delete runs meanwhile.
C26_GetSnapshot ==
    \A p \in Procs :
        (proc[p].op = "get" /\ proc[p].pc = "done" /\ proc[p].status = HTTP_200_OK) =>
            proc[p].body \in proc[p].moments

\* ---- Duplicates in list (ScanSpec) ----

\* C27: the sequence list returns holds each todo id at most once, for
\* every limit and whatever create or delete runs while the primary index
\* is scanned.
C27_NoDuplicates ==
    \A p \in Procs :
        (proc[p].op = "list" /\ proc[p].pc = "done") =>
            \A i, j \in 1..Len(proc[p].items) :
                proc[p].items[i].id = proc[p].items[j].id => i = j

\* ---- Login and the following me (SessionSpec) ----

\* C28: in every session, when a me request follows a login request
\* directly, it returns the name the login response carried, whatever name
\* the login sent and whether or not the session was logged in before.
C28_LoginThenMe ==
    [][\A s \in Sessions :
         (client[s].op = "login" /\ client'[s].op = "me") =>
             client'[s].name = client[s].name]_vars

====
